---- MODULE Spec2Model ----
(***************************************************************************)
(* Model of moveit_drake's conversions (src/src/conversions.cpp): packing  *)
(* named joint state into dense vectors, extraction of joint bounds,       *)
(* fitting a piecewise-linear trajectory from waypoints and resampling a   *)
(* continuous trajectory into waypoints.                                   *)
(*                                                                         *)
(* The library keeps no state between calls: every function is a          *)
(* transform of its arguments.  A behaviour of the model is a call on      *)
(* arguments of the caller's choice: `call` holds the function and its     *)
(* arguments (for the resampler, the output container as it is passed in), *)
(* `result` is pending until the call has run and then holds how it ended  *)
(* and what it returned or left in its output parameters.  The round trip  *)
(* goes on with a second call, the resampler on the trajectory the fitter  *)
(* returned.                                                               *)
(***************************************************************************)
EXTENDS Integers, Sequences, FiniteSets

VARIABLES call, result

vars == <<call, result>>

(***************************************************************************)
(* Bounds of the model.                                                    *)
(***************************************************************************)
\* Largest position capacity of a plant.
MaxCap == 3
\* Joint values of a robot state range over 0..MaxVal.
MaxVal == 2
\* Significant bits of the model's binary floating-point format.
Prec == 4
\* The format's smallest step is 2^-QuantumBits: a time x is held as the
\* integer x * 2^QuantumBits.
QuantumBits == 6
\* The resampler is called only when it appends at most MaxPts waypoints.
MaxPts == 7
\* End times of optimizer trajectories are the quarters 0/4 .. MaxEnd/4.
MaxEnd == 12
\* A trajectory handed to the fitter has at most MaxWaypoints waypoints.
MaxWaypoints == 3
\* The waypoints an output container holds from an earlier use.
OldCount == 3

(***************************************************************************)
(* Program constants (conversions.cpp:44-46, 96-97).                       *)
(***************************************************************************)
kMaxVelocity == 100
kMaxAcceleration == 100
kMaxJerk == 100
\* std::numeric_limits<double>::max(): the largest finite double; only its
\* being finite and above every declared limit matters here.
DblMax == 1000000
\* std::numeric_limits<double>::lowest()
DblLowest == -DblMax
\* The IEEE infinities, which are not finite doubles.
PosInfinity == DblMax + 1
NegInfinity == -PosInfinity

(***************************************************************************)
(* Motion groups, joints and plants.                                       *)
(***************************************************************************)
JointNames == {"a", "b"}

\* The ordinal of a name the plant has no joint for.
NoJoint == -1

NameIndex(name) == IF name = "a" THEN 0 ELSE 1

\* The two flag patterns joints are declared with: every bounded-flag is set
\* in one of them and clear in the other.
FlagPatterns == {<<TRUE, FALSE, TRUE, FALSE>>, <<FALSE, TRUE, FALSE, TRUE>>}

\* moveit::core::VariableBounds of variable v of joint `name`: the limits are
\* distinct per joint, variable and quantity, and all below the defaults.
VariableBounds(name, v, flags) ==
  LET base == 20 * NameIndex(name) + 10 * v
  IN  [position_bounded_ |-> flags[1],
       min_position_ |-> -(base + 1), max_position_ |-> base + 1,
       velocity_bounded_ |-> flags[2],
       min_velocity_ |-> -(base + 2), max_velocity_ |-> base + 2,
       acceleration_bounded_ |-> flags[3],
       min_acceleration_ |-> -(base + 3), max_acceleration_ |-> base + 3,
       jerk_bounded_ |-> flags[4],
       min_jerk_ |-> -(base + 4), max_jerk_ |-> base + 4]

\* A joint model: its name and the bounds of each of its variables (one per
\* degree of freedom).
JointModel(name, ndof, flags) ==
  [name |-> name,
   bounds |-> [v \in 1..ndof |->
                 VariableBounds(name, v - 1, IF v = 1 THEN flags ELSE <<TRUE, TRUE, TRUE, TRUE>>)]]

JointModels == {JointModel(n, d, f) : n \in JointNames, d \in 1..2, f \in FlagPatterns}

getVariableCount(joint_model) == Len(joint_model.bounds)

\* A motion group: its active joint models in iteration order, no name twice.
Groups ==
  {<<>>} \cup {<<j>> : j \in JointModels}
         \cup {<<j, k>> : j \in {x \in JointModels : x.name = "a"},
                          k \in {x \in JointModels : x.name = "b"}}
         \cup {<<k, j>> : j \in {x \in JointModels : x.name = "a"},
                          k \in {x \in JointModels : x.name = "b"}}

SingleDof(group) == \A i \in 1..Len(group) : getVariableCount(group[i]) = 1

\* Groups of single-degree-of-freedom joints declared with the first pattern.
PlainGroups ==
  {g \in Groups : \A i \in 1..Len(g) :
     getVariableCount(g[i]) = 1 /\ g[i].bounds[1].position_bounded_}

\* A MultibodyPlant as the conversions see it: its position and velocity
\* capacities and the ordinal of each joint it has.  Ordinals of distinct
\* joints are distinct; a plant has at most one more position than velocities.
Plants ==
  {[num_positions |-> nq, num_velocities |-> nv, ordinal |-> o] :
     nq \in 1..MaxCap, nv \in 1..MaxCap, o \in [JointNames -> NoJoint..(MaxCap - 1)]}

WellFormedPlant(p) ==
  /\ p.num_velocities \in {p.num_positions, p.num_positions - 1}
  /\ \A m, n \in JointNames :
       (m # n /\ p.ordinal[m] # NoJoint) => p.ordinal[m] # p.ordinal[n]

AllPlants == {p \in Plants : WellFormedPlant(p)}

\* The accelerations of a plant are the derivatives of its velocities.
num_accelerations(plant) == plant.num_velocities

OtherName(name) == IF name = "a" THEN "b" ELSE "a"

\* A robot state: a position and a velocity for every variable.  The
\* positions are arbitrary; a variable's velocity is one less than the other
\* variable's position.
RobotStates ==
  {[position |-> p, velocity |-> [n \in JointNames |-> p[OtherName(n)] - 1]] :
     p \in [JointNames -> 0..MaxVal]}

(***************************************************************************)
(* Outcomes of a call.                                                     *)
(*   ok     the call returned                                              *)
(*   abort  an assert() or an Eigen index check failed (builds without     *)
(*          NDEBUG)                                                        *)
(*   throw  a collaborator threw (GetJointByName of an unknown joint)      *)
(*   crash  an out-of-bounds access crashed (builds with NDEBUG)           *)
(***************************************************************************)
Fatal == {"abort", "throw", "crash"}

\* What an out-of-bounds access does in a build with NDEBUG: it corrupts or
\* reads memory next to the vector and goes on, or it crashes.
UBOutcomes == {"goes_on", "crash"}

\* Mutant of Zero: the vector is allocated but not zeroed.
ZeroMutant(n) == [i \in 0..(n - 1) |-> 1]

\* Eigen::VectorXd::Zero(n)
Zero(n) == [i \in 0..(n - 1) |-> 0]

(***************************************************************************)
(* getJointPositionVector / getJointVelocityVector (conversions.cpp:57-86) *)
(***************************************************************************)
\* The loop of lines 64-69 / 79-84 from joint i on; `values` is the state's
\* position or velocity of each variable.
RECURSIVE PackLoop(_, _, _, _, _, _, _)
PackLoop(group, plant, values, vec, i, ndebug, ub) ==
  IF i > Len(group) THEN [status |-> "ok", vec |-> vec]
  ELSE LET joint_name == group[i].name
           joint_index == plant.ordinal[joint_name]
       IN  IF joint_index = NoJoint THEN [status |-> "throw", vec |-> vec]
           ELSE IF joint_index \notin DOMAIN vec
             THEN IF ~ndebug THEN [status |-> "abort", vec |-> vec]
                  ELSE IF ub = "crash" THEN [status |-> "crash", vec |-> vec]
                  ELSE PackLoop(group, plant, values, vec, i + 1, ndebug, ub)
             ELSE PackLoop(group, plant, values,
                           [vec EXCEPT ![joint_index] = values[joint_name]],
                           i + 1, ndebug, ub)

Pack(group, capacity, plant, values, ndebug, ub) ==
  IF ~ndebug /\ ~(capacity >= Len(group))
  THEN [status |-> "abort", vec |-> Zero(0)]
  ELSE PackLoop(group, plant, values, Zero(capacity), 1, ndebug, ub)

\* Mutant of getJointPositionVector: the state's velocities are packed.
getJointPositionVectorMutant(moveit_state, group, plant, ndebug, ub) ==
  Pack(group, plant.num_positions, plant, moveit_state.velocity, ndebug, ub)

getJointPositionVector(moveit_state, group, plant, ndebug, ub) ==
  Pack(group, plant.num_positions, plant, moveit_state.position, ndebug, ub)

getJointVelocityVector(moveit_state, group, plant, ndebug, ub) ==
  Pack(group, plant.num_velocities, plant, moveit_state.velocity, ndebug, ub)

(***************************************************************************)
(* The bound extractors (conversions.cpp:88-186).                          *)
(***************************************************************************)
\* The second loop of each extractor from joint i on; q names the quantity
\* whose flag and limits the extractor reads.
RECURSIVE BoundsLoop(_, _, _, _, _, _, _, _)
BoundsLoop(group, plant, lower, upper, i, ndebug, ub, q) ==
  IF i > Len(group) THEN [status |-> "ok", lower |-> lower, upper |-> upper]
  ELSE LET bounds == group[i].bounds[1]
           joint_index == plant.ordinal[group[i].name]
           bounded == CASE q = "position" -> bounds.position_bounded_
                        [] q = "velocity" -> bounds.velocity_bounded_
                        [] q = "acceleration" -> bounds.acceleration_bounded_
                        [] q = "jerk" -> bounds.jerk_bounded_
           min == CASE q = "position" -> bounds.min_position_
                    [] q = "velocity" -> bounds.min_velocity_
                    [] q = "acceleration" -> bounds.min_acceleration_
                    [] q = "jerk" -> bounds.min_jerk_
           max == CASE q = "position" -> bounds.max_position_
                    [] q = "velocity" -> bounds.max_velocity_
                    [] q = "acceleration" -> bounds.max_acceleration_
                    [] q = "jerk" -> bounds.max_jerk_
       IN  IF joint_index = NoJoint
           THEN [status |-> "throw", lower |-> lower, upper |-> upper]
           ELSE IF ~bounded
             THEN BoundsLoop(group, plant, lower, upper, i + 1, ndebug, ub, q)
           ELSE IF joint_index \notin DOMAIN lower
             THEN IF ~ndebug THEN [status |-> "abort", lower |-> lower, upper |-> upper]
                  ELSE IF ub = "crash"
                    THEN [status |-> "crash", lower |-> lower, upper |-> upper]
                  ELSE BoundsLoop(group, plant, lower, upper, i + 1, ndebug, ub, q)
           ELSE BoundsLoop(group, plant,
                           [lower EXCEPT ![joint_index] = min],
                           [upper EXCEPT ![joint_index] = max],
                           i + 1, ndebug, ub, q)

\* An extractor: the assert on `asserted`, the vectors resized to `capacity`
\* and filled with the default, then the loop over the group.
Bounds(group, plant, asserted, capacity, lo, hi, ndebug, ub, q) ==
  IF ~ndebug /\ ~(asserted >= Len(group))
  THEN [status |-> "abort", lower |-> Zero(0), upper |-> Zero(0)]
  ELSE BoundsLoop(group, plant,
                  [i \in 0..(capacity - 1) |-> lo], [i \in 0..(capacity - 1) |-> hi],
                  1, ndebug, ub, q)

getPositionBounds(group, plant, ndebug, ub) ==
  Bounds(group, plant, plant.num_positions, plant.num_positions,
         DblLowest, DblMax, ndebug, ub, "position")

getVelocityBounds(group, plant, ndebug, ub) ==
  Bounds(group, plant, plant.num_velocities, plant.num_velocities,
         -kMaxVelocity, kMaxVelocity, ndebug, ub, "velocity")

\* Mutant of getAccelerationBounds: the body copied from getVelocityBounds
\* with the fields left unchanged.
getAccelerationBoundsMutant(group, plant, ndebug, ub) ==
  Bounds(group, plant, num_accelerations(plant), plant.num_velocities,
         -kMaxAcceleration, kMaxAcceleration, ndebug, ub, "velocity")

getAccelerationBounds(group, plant, ndebug, ub) ==
  Bounds(group, plant, num_accelerations(plant), plant.num_velocities,
         -kMaxAcceleration, kMaxAcceleration, ndebug, ub, "acceleration")

getJerkBounds(group, plant, ndebug, ub) ==
  Bounds(group, plant, plant.num_velocities, plant.num_velocities,
         -kMaxJerk, kMaxJerk, ndebug, ub, "jerk")

(***************************************************************************)
(* double arithmetic.  A finite double x is held as the integer            *)
(* x * 2^QuantumBits; a result is rounded to Prec significant bits, ties   *)
(* to even, as IEEE 754 rounds to 53.                                      *)
(***************************************************************************)
RECURSIVE Pow2(_)
Pow2(e) == IF e = 0 THEN 1 ELSE 2 * Pow2(e - 1)

\* 1.0
Unit == Pow2(QuantumBits)

Abs(x) == IF x < 0 THEN -x ELSE x

Sign(x) == IF x < 0 THEN -1 ELSE 1

\* The spacing of the doubles around q quanta.
RECURSIVE ScaleFor(_)
ScaleFor(q) == IF q < Pow2(Prec) THEN 1 ELSE 2 * ScaleFor(q \div 2)

\* n/d quanta (n >= 0, d > 0) rounded to the nearest double, ties to even.
RoundNat(n, d) ==
  LET dd == d * ScaleFor(n \div d)
      m == n \div dd
      rem == n - m * dd
  IN  (dd \div d) * (IF 2 * rem > dd \/ (2 * rem = dd /\ m % 2 = 1) THEN m + 1 ELSE m)

Round(n, d) == IF n >= 0 THEN RoundNat(n, d) ELSE -RoundNat(-n, d)

Representable(x) == Round(x, 1) = x

Fin(x) == [cls |-> "fin", v |-> x]
NaN == [cls |-> "nan", v |-> 0]
Inf(s) == [cls |-> "inf", v |-> s]

\* a / b
FDiv(a, b) ==
  CASE a.cls = "nan" \/ b.cls = "nan" -> NaN
    [] a.cls = "inf" /\ b.cls = "inf" -> NaN
    [] a.cls = "inf" /\ b.cls = "fin" -> Inf(a.v * Sign(b.v))
    [] a.cls = "fin" /\ b.cls = "inf" -> Fin(0)
    [] OTHER -> IF b.v = 0
                THEN (IF a.v = 0 THEN NaN ELSE Inf(Sign(a.v)))
                ELSE Fin(Round(a.v * Unit * Sign(b.v), Abs(b.v)))

\* a * b
FMul(a, b) ==
  CASE a.cls = "nan" \/ b.cls = "nan" -> NaN
    [] a.cls = "inf" /\ b.cls = "inf" -> Inf(a.v * b.v)
    [] a.cls = "inf" -> (IF b.v = 0 THEN NaN ELSE Inf(a.v * Sign(b.v)))
    [] b.cls = "inf" -> (IF a.v = 0 THEN NaN ELSE Inf(b.v * Sign(a.v)))
    [] OTHER -> Fin(Round(a.v * b.v, Unit))

\* a + b
FAdd(a, b) ==
  CASE a.cls = "nan" \/ b.cls = "nan" -> NaN
    [] a.cls = "inf" /\ b.cls = "inf" -> (IF a.v = b.v THEN a ELSE NaN)
    [] a.cls = "inf" -> a
    [] b.cls = "inf" -> b
    [] OTHER -> Fin(Round(a.v + b.v, 1))

\* a - b
FSub(a, b) == FAdd(a, IF b.cls = "nan" THEN NaN ELSE [b EXCEPT !.v = -b.v])

\* a < b, false when either is not a number
FLess(a, b) ==
  /\ a.cls # "nan" /\ b.cls # "nan"
  /\ CASE a.cls = "inf" /\ b.cls = "inf" -> a.v < b.v
       [] a.cls = "inf" -> a.v < 0
       [] b.cls = "inf" -> b.v > 0
       [] OTHER -> a.v < b.v

\* std::min(a, b): b when b < a, otherwise a
StdMin(a, b) == IF FLess(b, a) THEN b ELSE a

\* std::ceil
Ceil(a) ==
  IF a.cls # "fin" THEN a
  ELSE Fin(IF a.v >= 0 THEN Unit * ((a.v + Unit - 1) \div Unit)
           ELSE -(Unit * ((-a.v) \div Unit)))

\* static_cast<double>(i) of an unsigned integer
ToDouble(i) == Fin(Round(i * Unit, 1))

\* static_cast<size_t>(x): defined only for a finite x whose truncation is
\* not negative.
CastDefined(x) == x.cls = "fin" /\ x.v > -Unit

ToSizeT(x) == IF x.v >= 0 THEN x.v \div Unit ELSE 0

(***************************************************************************)
(* Exact fractions, for the values a continuous trajectory evaluates to.   *)
(***************************************************************************)
RECURSIVE GCD(_, _)
GCD(a, b) == IF b = 0 THEN a ELSE GCD(b, a % b)

\* n/d (d # 0) in lowest terms with a positive denominator
Rat(n, d) ==
  LET g == GCD(Abs(n), Abs(d))
  IN  [n |-> Sign(d) * (n \div g), d |-> Abs(d) \div g]

\* A value computed from a time that is not a number.
NaNRat == [n |-> 0, d |-> 0]

\* The indeterminate value an out-of-bounds read yields.
Garbage == [n |-> 1, d |-> 0]

(***************************************************************************)
(* Continuous trajectories.  A piecewise-linear trajectory is its breaks   *)
(* (finite doubles) and one sample vector per break; the evaluator is      *)
(* Drake's first-order hold: linear between adjacent breaks, with the      *)
(* segment's constant slope as derivative.                                 *)
(***************************************************************************)
NoTrajectory == [breaks |-> <<>>, samples |-> <<>>]

end_time(traj) == Fin(traj.breaks[Len(traj.breaks)])

\* The time a query is evaluated at: t clamped to the trajectory's span.
ClampTime(traj, t) ==
  LET first == traj.breaks[1]
      last == traj.breaks[Len(traj.breaks)]
  IN  IF t < first THEN first ELSE IF t > last THEN last ELSE t

\* The segment holding time c: the last one that starts at or before c.
Segment(traj, c) ==
  CHOOSE k \in 1..(Len(traj.breaks) - 1) :
    /\ traj.breaks[k] <= c
    /\ k = Len(traj.breaks) - 1 \/ c < traj.breaks[k + 1]

\* Trajectory::value(t): the position vector at t.
value(traj, t) ==
  IF t.cls # "fin" THEN [r \in DOMAIN traj.samples[1] |-> NaNRat]
  ELSE LET c == ClampTime(traj, t.v)
           k == Segment(traj, c)
           h == traj.breaks[k + 1] - traj.breaks[k]
       IN  [r \in DOMAIN traj.samples[1] |->
              Rat(traj.samples[k][r] * h
                    + (c - traj.breaks[k]) * (traj.samples[k + 1][r] - traj.samples[k][r]),
                  h)]

\* Trajectory::EvalDerivative(t): the velocity vector at t, per unit of time.
EvalDerivative(traj, t) ==
  IF t.cls # "fin" THEN [r \in DOMAIN traj.samples[1] |-> NaNRat]
  ELSE LET c == ClampTime(traj, t.v)
           k == Segment(traj, c)
           h == traj.breaks[k + 1] - traj.breaks[k]
       IN  [r \in DOMAIN traj.samples[1] |->
              Rat((traj.samples[k + 1][r] - traj.samples[k][r]) * Unit, h)]

\* PiecewisePolynomial::FirstOrderHold(breaks, samples): fewer than two
\* breaks, or breaks that do not strictly increase, are refused.
FirstOrderHold(breaks, samples) ==
  IF Len(breaks) < 2 \/ \E i \in 1..(Len(breaks) - 1) : ~(breaks[i] < breaks[i + 1])
  THEN [status |-> "throw", traj |-> NoTrajectory]
  ELSE [status |-> "ok", traj |-> [breaks |-> breaks, samples |-> samples]]

(***************************************************************************)
(* Discrete trajectories: a group and waypoints, each a state and the      *)
(* duration since the waypoint before it.                                  *)
(***************************************************************************)
\* RobotTrajectory::getWayPointDurationFromStart(i): the durations up to
\* waypoint i added up in double arithmetic, first to last.
RECURSIVE getWayPointDurationFromStart(_, _)
getWayPointDurationFromStart(waypoints, i) ==
  IF i = 0 THEN Fin(0)
  ELSE FAdd(getWayPointDurationFromStart(waypoints, i - 1), waypoints[i].duration)

(***************************************************************************)
(* getPiecewisePolynomial (conversions.cpp:188-207)                        *)
(***************************************************************************)
\* The loop of lines 198-203 from waypoint i on.
RECURSIVE FitLoop(_, _, _, _, _, _, _, _)
FitLoop(waypoints, group, plant, breaks, samples, i, ndebug, ub) ==
  IF i > Len(waypoints) THEN [status |-> "ok", breaks |-> breaks, samples |-> samples]
  ELSE LET packed == getJointPositionVector(waypoints[i].state, group, plant, ndebug, ub)
       IN  IF packed.status # "ok"
           THEN [status |-> packed.status, breaks |-> breaks, samples |-> samples]
           ELSE FitLoop(waypoints, group, plant,
                        Append(breaks, getWayPointDurationFromStart(waypoints, i).v),
                        Append(samples, packed.vec), i + 1, ndebug, ub)

getPiecewisePolynomial(waypoints, group, plant, ndebug, ub) ==
  LET filled == FitLoop(waypoints, group, plant, <<>>, <<>>, 1, ndebug, ub)
  IN  IF filled.status # "ok" THEN [status |-> filled.status, traj |-> NoTrajectory]
      ELSE FirstOrderHold(filled.breaks, filled.samples)

(***************************************************************************)
(* getRobotTrajectory (conversions.cpp:209-239)                            *)
(***************************************************************************)
\* Line 218 before the cast: std::ceil(end_time / delta_t) + 1
NumPtsDouble(end, delta_t) == FAdd(Ceil(FDiv(end, delta_t)), Fin(Unit))

\* Mutant of SampleTime: the fraction is i / num_pts.
SampleTimeMutant(i, num_pts, end) ==
  LET t_scale == FDiv(ToDouble(i), ToDouble(num_pts))
  IN  FMul(StdMin(t_scale, Fin(Unit)), end)

\* Lines 223-224: the time of sample i of num_pts
SampleTime(i, num_pts, end) ==
  LET t_scale == FDiv(ToDouble(i), ToDouble(num_pts - 1))
  IN  FMul(StdMin(t_scale, Fin(Unit)), end)

\* Mutant of ReadAt: the start of the vector is read for every joint.
ReadAtMutant(vec, joint_index) == IF 0 \in DOMAIN vec THEN vec[0] ELSE Garbage

\* Element joint_index of an evaluated vector, read for a waypoint.
ReadAt(vec, joint_index) == IF joint_index \in DOMAIN vec THEN vec[joint_index] ELSE Garbage

\* The loop of lines 228-234 from joint j on: the waypoint's positions and
\* velocities of the joints set so far.
RECURSIVE UnpackLoop(_, _, _, _, _, _, _, _, _)
UnpackLoop(active_joints, plant, pos_val, vel_val, j, position, velocity, ndebug, ub) ==
  IF j > Len(active_joints)
  THEN [status |-> "ok", position |-> position, velocity |-> velocity]
  ELSE LET joint_name == active_joints[j].name
           joint_index == plant.ordinal[joint_name]
           set(f, x) == [n \in DOMAIN f \cup {joint_name} |-> IF n = joint_name THEN x ELSE f[n]]
       IN  IF joint_index = NoJoint
           THEN [status |-> "throw", position |-> position, velocity |-> velocity]
           ELSE IF joint_index \notin DOMAIN pos_val /\ ~ndebug
             THEN [status |-> "abort", position |-> position, velocity |-> velocity]
           ELSE IF joint_index \notin DOMAIN pos_val /\ ub = "crash"
             THEN [status |-> "crash", position |-> position, velocity |-> velocity]
           ELSE UnpackLoop(active_joints, plant, pos_val, vel_val, j + 1,
                           set(position, ReadAt(pos_val, joint_index)),
                           set(velocity, ReadAt(vel_val, joint_index)), ndebug, ub)

\* The loop of lines 221-238 from sample i on; `times` collects the times
\* the trajectory was evaluated at.
RECURSIVE ResampleLoop(_, _, _, _, _, _, _, _, _, _)
ResampleLoop(traj, active_joints, plant, num_pts, i, t_prev, waypoints, times, ndebug, ub) ==
  IF ~(i < num_pts) THEN [status |-> "ok", waypoints |-> waypoints, times |-> times]
  ELSE LET t == SampleTime(i, num_pts, end_time(traj))
           pos_val == value(traj, t)
           vel_val == EvalDerivative(traj, t)
           waypoint == UnpackLoop(active_joints, plant, pos_val, vel_val, 1,
                                  <<>>, <<>>, ndebug, ub)
       IN  IF waypoint.status # "ok"
           THEN [status |-> waypoint.status, waypoints |-> waypoints,
                 times |-> Append(times, t)]
           ELSE ResampleLoop(traj, active_joints, plant, num_pts, i + 1, t,
                             Append(waypoints,
                                    [position |-> waypoint.position,
                                     velocity |-> waypoint.velocity,
                                     duration |-> FSub(t, t_prev)]),
                             Append(times, t), ndebug, ub)

\* Mutant of clear: the container keeps its waypoints.
clearMutant(waypoints) == waypoints

\* RobotTrajectory::clear() (line 214): the waypoints the container holds
\* afterwards.
clear(waypoints) == <<>>

\* The call as a whole: the container is cleared, then refilled.  num_pts is
\* the value the cast of line 218 produced.
getRobotTrajectory(traj, num_pts, plant, moveit_trajectory, ndebug, ub) ==
  ResampleLoop(traj, moveit_trajectory.group, plant, num_pts, 0, Fin(0),
               clear(moveit_trajectory.waypoints), <<>>, ndebug, ub)

(***************************************************************************)
(* The arguments the calls are made on.                                    *)
(***************************************************************************)
\* Groups and plants of the trajectory calls: single-degree-of-freedom
\* joints; a plant that fits them, one with a spare ordinal and the joints
\* in another order, one without joint b, and one too small for joint b.
TrajGroups == {g \in PlainGroups : Len(g) >= 1 /\ (Len(g) = 1 => g[1].name = "a")}

FittingPlant ==
  [num_positions |-> 2, num_velocities |-> 2, ordinal |-> [n \in JointNames |-> NameIndex(n)]]

TrajPlants ==
  {FittingPlant,
   [num_positions |-> 3, num_velocities |-> 3, ordinal |-> [n \in JointNames |-> 2 - 2 * NameIndex(n)]],
   [num_positions |-> 2, num_velocities |-> 2,
    ordinal |-> [n \in JointNames |-> IF n = "a" THEN 1 ELSE NoJoint]],
   [num_positions |-> 1, num_velocities |-> 1, ordinal |-> [n \in JointNames |-> NameIndex(n)]]}

\* Trajectories handed to the fitter: up to MaxWaypoints waypoints, each 0,
\* 1 or 2 units of time after the one before, whose states alternate between
\* (a = 0, b = 2) and (a = 2, b = 1), starting with either.
FitState(k) ==
  [position |-> [n \in JointNames |-> IF k % 2 = 0 THEN 2 * NameIndex(n) ELSE 2 - NameIndex(n)],
   velocity |-> [n \in JointNames |-> 0]]

RECURSIVE SeqsUpTo(_, _)
SeqsUpTo(S, n) ==
  IF n = 0 THEN {<<>>}
  ELSE LET shorter == SeqsUpTo(S, n - 1)
       IN  shorter \cup {Append(q, x) : q \in {r \in shorter : Len(r) = n - 1}, x \in S}

FitInputs ==
  {[i \in 1..Len(d) |-> [state |-> FitState(i + first), duration |-> Fin(d[i] * Unit)]] :
     d \in SeqsUpTo(0..2, MaxWaypoints), first \in 0..1}

\* Trajectories an optimizer hands to the resampler: one linear segment
\* ending at 0 or at any double from 1/4 to MaxEnd quarters of a unit of
\* time (end time 0: a segment that started before time 0).
EndTimes == {0} \cup {e \in (Unit \div 4)..(MaxEnd * (Unit \div 4)) : Representable(e)}

\* The end times that are whole quarters.
QuarterEndTimes == {e \in EndTimes : e % (Unit \div 4) = 0}

OptimizerTrajectory(e) ==
  [breaks |-> IF e = 0 THEN <<-Unit, 0>> ELSE <<0, e>>,
   samples |-> <<[r \in 0..2 |-> r], [r \in 0..2 |-> 4 - 2 * r]>>]

\* Sampling intervals: 5/16 (the double nearest to 0.3 at four significant
\* bits), 3/8, 1/2, 3/4, 1 and 3/2 units of time, and the degenerate 0, -1/2
\* and -1.
DeltaSixteenths == {-16, -8, 0, 5, 6, 8, 12, 16, 24}

DeltaTs == {e \in {k * (Unit \div 16) : k \in DeltaSixteenths} : Representable(e)}

\* Every double from 1/4 to 3/2 units of time.
AllDeltaTs == {e \in (Unit \div 4)..(3 * (Unit \div 2)) : Representable(e)}

\* What the output container holds when it is passed in: nothing, or
\* waypoints of an earlier use.
OldWaypoint(g) ==
  [position |-> [n \in {g[i].name : i \in 1..Len(g)} |-> Rat(7, 1)],
   velocity |-> [n \in {g[i].name : i \in 1..Len(g)} |-> Rat(0, 1)],
   duration |-> Fin(Unit)]

Containers ==
  {[group |-> g, waypoints |-> [i \in 1..k |-> OldWaypoint(g)]] :
     g \in TrajGroups, k \in {0, OldCount}}

\* What the cast of line 218 may produce when it is undefined.
UBCounts == 0..2

\* The counts the cast of line 218 may produce in call c of the resampler.
CastOutcomes(c) ==
  LET n == NumPtsDouble(end_time(c.drake_trajectory), Fin(c.delta_t))
  IN  IF CastDefined(n) THEN {ToSizeT(n)} ELSE UBCounts

(***************************************************************************)
(* The calls.                                                              *)
(***************************************************************************)
Pending == [status |-> "pending"]

PackCalls(op) ==
  {[op |-> op, moveit_state |-> st, group |-> g, plant |-> p] :
     st \in RobotStates, g \in PlainGroups, p \in AllPlants}

BoundsCalls(op) == {[op |-> op, group |-> g, plant |-> p] : g \in Groups, p \in AllPlants}

VectorCalls ==
  PackCalls("getJointPositionVector") \cup PackCalls("getJointVelocityVector")
    \cup BoundsCalls("getPositionBounds") \cup BoundsCalls("getVelocityBounds")
    \cup BoundsCalls("getAccelerationBounds") \cup BoundsCalls("getJerkBounds")

Init ==
  /\ call \in VectorCalls
  /\ result = Pending

CallGetJointPositionVector ==
  /\ call.op = "getJointPositionVector" /\ result = Pending
  /\ \E ndebug \in BOOLEAN, ub \in UBOutcomes :
       result' = getJointPositionVector(call.moveit_state, call.group, call.plant, ndebug, ub)
  /\ UNCHANGED call

CallGetJointVelocityVector ==
  /\ call.op = "getJointVelocityVector" /\ result = Pending
  /\ \E ndebug \in BOOLEAN, ub \in UBOutcomes :
       result' = getJointVelocityVector(call.moveit_state, call.group, call.plant, ndebug, ub)
  /\ UNCHANGED call

CallGetPositionBounds ==
  /\ call.op = "getPositionBounds" /\ result = Pending
  /\ \E ndebug \in BOOLEAN, ub \in UBOutcomes :
       result' = getPositionBounds(call.group, call.plant, ndebug, ub)
  /\ UNCHANGED call

CallGetVelocityBounds ==
  /\ call.op = "getVelocityBounds" /\ result = Pending
  /\ \E ndebug \in BOOLEAN, ub \in UBOutcomes :
       result' = getVelocityBounds(call.group, call.plant, ndebug, ub)
  /\ UNCHANGED call

CallGetAccelerationBounds ==
  /\ call.op = "getAccelerationBounds" /\ result = Pending
  /\ \E ndebug \in BOOLEAN, ub \in UBOutcomes :
       result' = getAccelerationBounds(call.group, call.plant, ndebug, ub)
  /\ UNCHANGED call

CallGetJerkBounds ==
  /\ call.op = "getJerkBounds" /\ result = Pending
  /\ \E ndebug \in BOOLEAN, ub \in UBOutcomes :
       result' = getJerkBounds(call.group, call.plant, ndebug, ub)
  /\ UNCHANGED call

Next ==
  \/ CallGetJointPositionVector
  \/ CallGetJointVelocityVector
  \/ CallGetPositionBounds
  \/ CallGetVelocityBounds
  \/ CallGetAccelerationBounds
  \/ CallGetJerkBounds

Spec == Init /\ [][Next]_vars

\* A call of the resampler on trajectory traj, which was fitted from the
\* waypoints `fitted` (none: <<>>).
ResampleCall(traj, fitted, delta_t, p, container) ==
  [op |-> "getRobotTrajectory", drake_trajectory |-> traj, robot_trajectory |-> fitted,
   delta_t |-> delta_t, plant |-> p, moveit_trajectory |-> container]

\* The count of line 218 is at most MaxPts, or the cast is undefined.
WithinMaxPts(traj, delta_t) ==
  LET n == NumPtsDouble(end_time(traj), Fin(delta_t))
  IN  CastDefined(n) => ToSizeT(n) <= MaxPts

TrajCalls ==
  {[op |-> "getPiecewisePolynomial", robot_trajectory |-> wps, group |-> g, plant |-> p] :
     wps \in FitInputs, g \in TrajGroups, p \in TrajPlants}
  \cup {c \in {ResampleCall(OptimizerTrajectory(e), <<>>, delta_t, p, m) :
                 e \in QuarterEndTimes, delta_t \in DeltaTs, p \in TrajPlants, m \in Containers} :
          WithinMaxPts(c.drake_trajectory, c.delta_t)}
  \cup {c \in {ResampleCall(OptimizerTrajectory(e), <<>>, delta_t, FittingPlant, m) :
                 e \in EndTimes, delta_t \in AllDeltaTs,
                 m \in {x \in Containers : Len(x.group) = 1 /\ x.waypoints = <<>>}} :
          WithinMaxPts(c.drake_trajectory, c.delta_t)}

InitTraj ==
  /\ call \in TrajCalls
  /\ result = Pending

\* The resampler as a whole: the container is cleared (line 214), the count
\* is computed and cast (line 218), the loop refills the container.
RunGetRobotTrajectory(c, ndebug, ub, num_pts) ==
  LET defined == CastDefined(NumPtsDouble(end_time(c.drake_trajectory), Fin(c.delta_t)))
      r == getRobotTrajectory(c.drake_trajectory, num_pts, c.plant,
                              c.moveit_trajectory, ndebug, ub)
  IN  IF ~defined /\ ub = "crash"
      THEN [status |-> "crash", cast_defined |-> defined, times |-> <<>>,
            moveit_trajectory |->
              [c.moveit_trajectory EXCEPT !.waypoints = clear(c.moveit_trajectory.waypoints)]]
      ELSE [status |-> r.status, cast_defined |-> defined, times |-> r.times,
            moveit_trajectory |-> [c.moveit_trajectory EXCEPT !.waypoints = r.waypoints]]

CallGetPiecewisePolynomial ==
  /\ call.op = "getPiecewisePolynomial" /\ result = Pending
  /\ \E ndebug \in BOOLEAN, ub \in UBOutcomes :
       result' = getPiecewisePolynomial(call.robot_trajectory, call.group, call.plant, ndebug, ub)
  /\ UNCHANGED call

CallGetRobotTrajectory ==
  /\ call.op = "getRobotTrajectory" /\ result = Pending
  /\ \E ndebug \in BOOLEAN, ub \in UBOutcomes, num_pts \in CastOutcomes(call) :
       result' = RunGetRobotTrajectory(call, ndebug, ub, num_pts)
  /\ UNCHANGED call

\* The round trip: once the fitter has returned a trajectory, the resampler
\* is called on it, into a container of the same group and against the same
\* plant.
ResampleFitted ==
  /\ call.op = "getPiecewisePolynomial" /\ result.status = "ok"
  /\ \E delta_t \in DeltaTs, m \in {x \in Containers : x.group = call.group} :
       /\ WithinMaxPts(result.traj, delta_t)
       /\ call' = ResampleCall(result.traj, call.robot_trajectory, delta_t, call.plant, m)
       /\ \E ndebug \in BOOLEAN, ub \in UBOutcomes, num_pts \in CastOutcomes(call') :
            result' = RunGetRobotTrajectory(call', ndebug, ub, num_pts)

NextTraj ==
  \/ CallGetPiecewisePolynomial
  \/ CallGetRobotTrajectory
  \/ ResampleFitted

SpecTraj == InitTraj /\ [][NextTraj]_vars

(***************************************************************************)
(* Vocabulary of the properties.                                           *)
(***************************************************************************)
Done == result.status # "pending"

PackOps == {"getJointPositionVector", "getJointVelocityVector"}

BoundsOps == {"getPositionBounds", "getVelocityBounds", "getAccelerationBounds", "getJerkBounds"}

\* The capacity the call's vectors are sized by.
Capacity ==
  IF call.op \in {"getJointPositionVector", "getPositionBounds"}
  THEN call.plant.num_positions ELSE call.plant.num_velocities

\* The joint of the group that the plant maps to ordinal o, as a set (empty
\* or one joint).
JointsAt(group, plant, o) == {i \in 1..Len(group) : plant.ordinal[group[i].name] = o}

\* A consistent pairing: every active joint has one degree of freedom and an
\* ordinal of its own within the capacity (so the capacity is at least the
\* number of active joints).
Consistent(group, plant, capacity) ==
  /\ SingleDof(group)
  /\ \A i \in 1..Len(group) : plant.ordinal[group[i].name] \in 0..(capacity - 1)

\* The group iterated in the opposite order.
Reverse(group) == [i \in 1..Len(group) |-> group[Len(group) + 1 - i]]

\* The values a pack call reads from the state.
PackedValues ==
  IF call.op = "getJointPositionVector"
  THEN call.moveit_state.position ELSE call.moveit_state.velocity

(***************************************************************************)
(* C1.  For a group and a dense vector space that pair consistently, pack   *)
(* (positions or velocities) returns a vector as long as the capacity; the *)
(* entry at each active joint's ordinal is the state's value of the joint, *)
(* every other entry is exactly 0, and packing the group in the opposite   *)
(* iteration order returns the same vector.                                *)
(***************************************************************************)
C1_PackFillsOrdinals ==
  (call.op \in PackOps /\ Done /\ Consistent(call.group, call.plant, Capacity)) =>
    /\ result.status = "ok"
    /\ DOMAIN result.vec = 0..(Capacity - 1)
    /\ \A o \in 0..(Capacity - 1) :
         LET at == JointsAt(call.group, call.plant, o)
         IN  IF at = {} THEN result.vec[o] = 0
             ELSE \A i \in at : result.vec[o] = PackedValues[call.group[i].name]
    /\ \A ndebug \in BOOLEAN, ub \in UBOutcomes :
         Pack(Reverse(call.group), Capacity, call.plant, PackedValues, ndebug, ub).vec
           = result.vec

\* Two joints packed in the order b, a into a space with a spare ordinal.
C1_Witness ==
  /\ call.op = "getJointPositionVector" /\ result.status = "ok"
  /\ Consistent(call.group, call.plant, Capacity)
  /\ Len(call.group) = 2 /\ call.group[1].name = "b"
  /\ call.plant.num_positions = 3
  /\ call.moveit_state.position["a"] = 1 /\ call.moveit_state.position["b"] = 2
  /\ \E o \in 0..2 : JointsAt(call.group, call.plant, o) = {} /\ result.vec[o] = 0

(***************************************************************************)
(* C2.  Pack then unpack is the identity on the group's joints: for a      *)
(* consistent pairing, reading the packed vector back joint by joint, as   *)
(* the resampler's loop over the active joints does, yields the state's    *)
(* value of every active joint.                                            *)
(***************************************************************************)
C2_PackUnpackRoundTrip ==
  (call.op \in PackOps /\ Done /\ Consistent(call.group, call.plant, Capacity)) =>
    \A ndebug \in BOOLEAN, ub \in UBOutcomes :
      LET unpacked == UnpackLoop(call.group, call.plant, result.vec, result.vec, 1,
                                 <<>>, <<>>, ndebug, ub)
      IN  /\ result.status = "ok"
          /\ unpacked.status = "ok"
          /\ DOMAIN unpacked.position = {call.group[i].name : i \in 1..Len(call.group)}
          /\ \A n \in DOMAIN unpacked.position : unpacked.position[n] = PackedValues[n]

\* Two joints with different velocities, at ordinals other than 0 and 1 in
\* that order.
C2_Witness ==
  /\ call.op = "getJointVelocityVector" /\ result.status = "ok"
  /\ Consistent(call.group, call.plant, Capacity)
  /\ Len(call.group) = 2
  /\ call.plant.ordinal["a"] > call.plant.ordinal["b"]
  /\ call.moveit_state.velocity["a"] # call.moveit_state.velocity["b"]

(***************************************************************************)
(* C3.  After a bound extractor has run on a consistent pairing, every     *)
(* ordinal of the lower/upper vectors holds the declared (min, max) of the *)
(* active joint mapped to it when the joint's flag of the quantity is set, *)
(* and the default of the quantity otherwise; the position vectors are as  *)
(* long as the position capacity, the others as the velocity capacity.     *)
(***************************************************************************)
\* What a joint declares for the quantity of the call.
Declared(joint_model) ==
  LET b == joint_model.bounds[1]
  IN  CASE call.op = "getPositionBounds" ->
             [bounded |-> b.position_bounded_, min |-> b.min_position_, max |-> b.max_position_]
        [] call.op = "getVelocityBounds" ->
             [bounded |-> b.velocity_bounded_, min |-> b.min_velocity_, max |-> b.max_velocity_]
        [] call.op = "getAccelerationBounds" ->
             [bounded |-> b.acceleration_bounded_, min |-> b.min_acceleration_,
              max |-> b.max_acceleration_]
        [] call.op = "getJerkBounds" ->
             [bounded |-> b.jerk_bounded_, min |-> b.min_jerk_, max |-> b.max_jerk_]

\* The extractor's vectors hold the declared limits of the flagged joints
\* and (lo, hi) at the ordinals of position calls, (-100, 100) at the
\* ordinals of the other calls.
BoundsAre(lo, hi) ==
  /\ result.status = "ok"
  /\ DOMAIN result.lower = 0..(Capacity - 1)
  /\ DOMAIN result.upper = 0..(Capacity - 1)
  /\ \A o \in 0..(Capacity - 1) :
       LET flagged == {i \in JointsAt(call.group, call.plant, o) : Declared(call.group[i]).bounded}
       IN  IF flagged # {}
           THEN \A i \in flagged : /\ result.lower[o] = Declared(call.group[i]).min
                                   /\ result.upper[o] = Declared(call.group[i]).max
           ELSE IF call.op = "getPositionBounds"
             THEN result.lower[o] = lo /\ result.upper[o] = hi
             ELSE result.lower[o] = -100 /\ result.upper[o] = 100

\* The claim as written: the position default is (-infinity, +infinity).
C3_BoundsInfiniteDefault ==
  (call.op \in BoundsOps /\ Done /\ Consistent(call.group, call.plant, Capacity)) =>
    BoundsAre(NegInfinity, PosInfinity)

\* The claim as amended: the position default is the pair of the lowest and
\* the largest finite double.
C3_BoundsFiniteDefault ==
  (call.op \in BoundsOps /\ Done /\ Consistent(call.group, call.plant, Capacity)) =>
    BoundsAre(DblLowest, DblMax)

\* A position call on two joints, one flagged and one not, into a space with
\* a spare ordinal: the declared limits, and twice the position default.
C3_Witness ==
  /\ call.op = "getPositionBounds" /\ result.status = "ok"
  /\ Consistent(call.group, call.plant, Capacity)
  /\ Len(call.group) = 2 /\ call.plant.num_positions = 3
  /\ Declared(call.group[1]).bounded /\ ~Declared(call.group[2]).bounded
  /\ \E o \in 0..2 : result.lower[o] = Declared(call.group[1]).min
  /\ Cardinality({o \in 0..2 : result.lower[o] = DblLowest /\ result.upper[o] = DblMax}) = 2

(***************************************************************************)
(* C7.  A precondition violation always ends in a fatal failure: a pack or *)
(* bounds call made with a capacity below the number of active joints,     *)
(* with an active joint the space has no ordinal for, or with a joint of   *)
(* more than one degree of freedom does not return.                        *)
(***************************************************************************)
PreconditionViolated ==
  \/ Capacity < Len(call.group)
  \/ \E i \in 1..Len(call.group) : call.plant.ordinal[call.group[i].name] = NoJoint
  \/ ~SingleDof(call.group)

C7_ViolationIsFatal ==
  (call.op \in PackOps \cup BoundsOps /\ Done /\ PreconditionViolated) =>
    result.status \in Fatal

(***************************************************************************)
(* Vocabulary of the trajectory properties.                                *)
(***************************************************************************)
\* The resampler has run / has returned.
Resampled == call.op = "getRobotTrajectory" /\ Done

Returned == Resampled /\ result.status = "ok"

\* The end time of the resampled trajectory, in quanta.
EndTime == end_time(call.drake_trajectory).v

\* The waypoints the container holds after / held before the call.
Out == result.moveit_trajectory.waypoints

Old == call.moveit_trajectory.waypoints

\* The least integer that is at least the double x >= 0.
LeastIntegerAbove(x) ==
  CHOOSE k \in 0..(MaxPts + 1) : k * Unit >= x.v /\ (k - 1) * Unit < x.v

(***************************************************************************)
(* C4.  After the resampler returns for an end time >= 0 and a sampling    *)
(* interval delta_t > 0, the container holds exactly                       *)
(* ceil(end_time / delta_t) + 1 waypoints (the quotient being the double   *)
(* quotient), whatever it held before: none of the earlier waypoints       *)
(* survives.                                                               *)
(***************************************************************************)
C4_ResampleCount ==
  (Returned /\ EndTime >= 0 /\ call.delta_t > 0) =>
    /\ Len(Out) = LeastIntegerAbove(FDiv(Fin(EndTime), Fin(call.delta_t))) + 1
    /\ \A i \in 1..Len(Out), j \in 1..Len(Old) : Out[i] # Old[j]

\* End time 1, interval 5/16 (0.3 at the model's precision), into a
\* container that held waypoints: 5 waypoints.
C4_Witness ==
  /\ Returned
  /\ EndTime = Unit /\ call.delta_t = 5 * (Unit \div 16)
  /\ Len(Old) = OldCount
  /\ Len(Out) = 5

(***************************************************************************)
(* C5.  For every end time and every delta_t > 0 the first appended        *)
(* duration is 0, the appended durations add up to the end time exactly    *)
(* (the elapsed time of the last waypoint), and no sample is evaluated at  *)
(* a time greater than the end time.                                       *)
(***************************************************************************)
DurationsSumToEnd ==
  /\ Len(Out) >= 1
  /\ Out[1].duration = Fin(0)
  /\ getWayPointDurationFromStart(Out, Len(Out)) = Fin(EndTime)
  /\ \A i \in 1..Len(result.times) :
       result.times[i].cls = "fin" /\ result.times[i].v <= EndTime

C5_DurationsSumToEnd == (Returned /\ call.delta_t > 0) => DurationsSumToEnd

(***************************************************************************)
(* C6.  Degenerate input is rejected and leaves no partial output: the     *)
(* resampler called with delta_t <= 0 signals a failure and leaves the     *)
(* container as it was; the fitter called with fewer than two waypoints or *)
(* with elapsed times that do not strictly increase signals a failure.     *)
(***************************************************************************)
NotStrictlyIncreasing(waypoints) ==
  \E i \in 2..Len(waypoints) : ~(waypoints[i].duration.v > 0)

C6_DegenerateRejected ==
  /\ (Resampled /\ call.delta_t <= 0) =>
       result.status = "throw" /\ result.moveit_trajectory = call.moveit_trajectory
  /\ (/\ call.op = "getPiecewisePolynomial" /\ Done
      /\ Consistent(call.group, call.plant, call.plant.num_positions)
      /\ (Len(call.robot_trajectory) < 2 \/ NotStrictlyIncreasing(call.robot_trajectory))) =>
       result.status = "throw"

(***************************************************************************)
(* C8.  Fit then resample reproduces a piecewise-linear motion: at every   *)
(* sample time within the waypoints' span, the resampled position of each  *)
(* active joint is the linear interpolation of two enclosing waypoints and *)
(* its velocity the constant slope of that segment, the first and the last *)
(* sample included; each appended duration is the time since the sample    *)
(* before.                                                                 *)
(***************************************************************************)
\* The elapsed time of waypoint k, in quanta.
RECURSIVE Elapsed(_, _)
Elapsed(waypoints, k) ==
  IF k = 0 THEN 0 ELSE Elapsed(waypoints, k - 1) + waypoints[k].duration.v

\* Waypoint `out`, sampled at time t, lies on segment k of the waypoints.
OnSegment(out, t, waypoints, k, group) ==
  LET t0 == Elapsed(waypoints, k)
      h == Elapsed(waypoints, k + 1) - t0
  IN  /\ t0 <= t /\ t <= t0 + h
      /\ \A j \in 1..Len(group) :
           LET n == group[j].name
               p0 == waypoints[k].state.position[n]
               p1 == waypoints[k + 1].state.position[n]
           IN  /\ out.position[n] = Rat(p0 * h + (t - t0) * (p1 - p0), h)
               /\ out.velocity[n] = Rat((p1 - p0) * Unit, h)

C8_FitResampleLinear ==
  (/\ Returned /\ call.robot_trajectory # <<>> /\ call.delta_t > 0
   /\ Consistent(call.moveit_trajectory.group, call.plant, call.plant.num_positions)) =>
    /\ Len(Out) = Len(result.times) /\ Len(Out) >= 2
    /\ \A i \in 1..Len(Out) :
         LET t == result.times[i]
         IN  /\ t.cls = "fin"
             /\ Out[i].duration = FSub(t, IF i = 1 THEN Fin(0) ELSE result.times[i - 1])
             /\ t.v >= Elapsed(call.robot_trajectory, 1) =>
                  \E k \in 1..(Len(call.robot_trajectory) - 1) :
                    OnSegment(Out[i], t.v, call.robot_trajectory, k,
                              call.moveit_trajectory.group)

\* Joint a at 0 at time 0 and at 2 at time 2, resampled every unit of time:
\* three waypoints at times 0, 1, 2 with positions 0, 1, 2, velocity 1, and
\* second and third durations 1.
C8_Witness ==
  /\ Returned
  /\ call.robot_trajectory = <<[state |-> FitState(0), duration |-> Fin(0)],
                               [state |-> FitState(1), duration |-> Fin(2 * Unit)]>>
  /\ call.delta_t = Unit
  /\ result.times = <<Fin(0), Fin(Unit), Fin(2 * Unit)>>
  /\ Len(Out) = 3
  /\ \A i \in 1..3 : Out[i].position["a"] = Rat(i - 1, 1) /\ Out[i].velocity["a"] = Rat(1, 1)
  /\ Out[2].duration = Fin(Unit) /\ Out[3].duration = Fin(Unit)

(***************************************************************************)
(* C9.  When the trajectory's end time is 0 the resampler evaluates it at  *)
(* time 0 and appends exactly one waypoint, with duration 0; no sample     *)
(* time or duration is not-a-number.                                       *)
(***************************************************************************)
C9_ZeroEndTime ==
  (Resampled /\ EndTime = 0 /\ call.delta_t > 0) =>
    /\ result.status = "ok"
    /\ result.times = <<Fin(0)>>
    /\ Len(Out) = 1 /\ Out[1].duration = Fin(0)

(***************************************************************************)
(* C10.  The resampler's time step is end_time / (N - 1), not delta_t.     *)
(***************************************************************************)
\* The sample times rise strictly from 0 to the end time.
TimesRise ==
  /\ Len(result.times) = Len(Out) /\ Len(Out) >= 2
  /\ \A i \in 1..Len(Out) : result.times[i].cls = "fin"
  /\ result.times[1] = Fin(0) /\ result.times[Len(Out)] = Fin(EndTime)
  /\ \A i \in 2..Len(Out) : result.times[i - 1].v < result.times[i].v

\* C10 as written: for end_time > 0 and delta_t > 0 every appended duration
\* after the first is the same value end_time / (N - 1), greater than 0 and
\* at most delta_t, and delta_t only when delta_t divides end_time; the
\* sample times rise strictly from 0 to end_time.
C10_UniformStep ==
  (Returned /\ EndTime > 0 /\ call.delta_t > 0) =>
    /\ TimesRise
    /\ \A i \in 2..Len(Out) :
         /\ Out[i].duration.cls = "fin"
         /\ Out[i].duration.v * (Len(Out) - 1) = EndTime
         /\ Out[i].duration.v > 0
         /\ Out[i].duration.v <= call.delta_t
         /\ Out[i].duration.v = call.delta_t => EndTime % call.delta_t = 0

\* C10 as amended: for end_time > 0 and delta_t > 0 every appended duration
\* after the first is greater than 0 and is the exact difference of two
\* adjacent sample times; sample i (from 0) is at i * end_time / (N - 1) up
\* to the rounding of one division and one multiplication; the durations
\* are all delta_t only when delta_t divides end_time; the sample times
\* rise strictly from 0 to end_time.
C10_RoundedStep ==
  (Returned /\ EndTime > 0 /\ call.delta_t > 0) =>
    /\ TimesRise
    /\ \A i \in 2..Len(Out) :
         /\ Out[i].duration.cls = "fin"
         /\ Out[i].duration.v = result.times[i].v - result.times[i - 1].v
         /\ Out[i].duration.v > 0
    /\ \A i \in 1..Len(Out) :
         Abs(result.times[i].v * (Len(Out) - 1) - (i - 1) * EndTime) * Pow2(2 * Prec)
           <= (Pow2(Prec + 1) + 1) * (i - 1) * EndTime
    /\ (\A i \in 2..Len(Out) : Out[i].duration.v = call.delta_t) =>
         EndTime = (Len(Out) - 1) * call.delta_t

\* End time 1 resampled at 3/8: three steps that are not all the same.
C10_Witness ==
  /\ Returned
  /\ EndTime = Unit /\ call.delta_t = 3 * (Unit \div 8)
  /\ Len(Out) = 4
  /\ \E i, j \in 2..4 : Out[i].duration # Out[j].duration

====
